---- MODULE Spec2Model ----
(***************************************************************************)
(* Model of the FPL price bot repository:                                  *)
(*   main.py                   always-on bot: scheduler thread + listener  *)
(*   send_update.py            one-shot price-change script                *)
(*   send_price_predictions.py one-shot prediction script                  *)
(*   send_transfer_trends.py   one-shot transfer-trend script              *)
(*                                                                         *)
(* Data frames are sequences of records (one record per row, in row        *)
(* order).  A formatted message is a sequence of tokens, one token per     *)
(* piece of text the formatter concatenates.                               *)
(***************************************************************************)
EXTENDS Integers, Sequences, FiniteSets, TLC

VARIABLES
    players,     \* players_df: today's rows as fetched from the API
    yesterday,   \* yesterday_df: rows of yesterday_costs.csv (<<>> = empty frame)
    main_out,    \* main.py get_price_changes: its frames and its return value
    upd_out,     \* send_update.py get_price_changes and main(): frames, message
    pred,        \* send_price_predictions.py: the script's process state
    trend,       \* send_transfer_trends.py: table, top_n, the two lists, message
    num,         \* format_number: an argument and the text it returns
    runs,        \* the current (or last) run of each thread of main.py and of
                 \* the send_update.py process
    sched        \* main.py scheduler thread: "waiting", "in_job" or "dead"

vars == <<players, yesterday, main_out, upd_out, pred, trend, num, runs, sched>>

\* the variables of each program, for the UNCHANGED clauses
calc_vars == <<players, yesterday, main_out, upd_out>>
trend_vars == <<trend, num>>
bot_vars == <<runs, sched>>

\* ---------------------------------------------------------------- bounds
MaxPlayers == 3
Costs == {45, 50, 55}
\* prediction tables: copies of each kind of row
MaxCrowd == 11
MaxCandidates == 6
MaxEach == 1
\* transfer-trend tables
MaxTrendPlayers == 3
MaxTopN == 3
\* rows of the tables the handler and script runs fetch
MaxRunPlayers == 1

\* ---------------------------------------------------------------- helpers
Range(s) == {s[i] : i \in 1..Len(s)}

\* A float column value: a number or NaN (left join without a match)
NaN == [nan |-> TRUE, v |-> 0]
Num(x) == [nan |-> FALSE, v |-> x]
\* Python/pandas comparisons on floats: every ordering test on NaN is False,
\* NaN != 0 is True
Sub(a, b) == IF b.nan THEN NaN ELSE Num(a - b.v)
Ne0(x) == x.nan \/ x.v # 0
Gt0(x) == ~x.nan /\ x.v > 0
Lt0(x) == ~x.nan /\ x.v < 0

\* All orderings of the rows of s
Orderings(s) ==
    LET n == Len(s)
        Perm == {p \in [1..n -> 1..n] : \A i, j \in 1..n : i # j => p[i] # p[j]}
    IN {[i \in 1..n |-> s[p[i]]] : p \in Perm}

\* DataFrame.sort_values(by='now_cost', ascending=...): the default sort is
\* quicksort, so rows with equal keys may come out in any order.
SortValuesNowCost(s, ascending) ==
    {t \in Orderings(s) :
        \A i, j \in 1..Len(t) : i < j =>
            IF ascending THEN t[i].now_cost <= t[j].now_cost
                         ELSE t[i].now_cost >= t[j].now_cost}

\* ------------------------------------------------- input tables (price)
WebNames == <<"Saka", "Salah", "Haaland", "Palmer", "Isak">>

\* elements of bootstrap-static: one row per player, ids unique, at least
\* one row (the column selection raises KeyError on a frame with no columns)
PlayerTablesUpTo(max, costs) ==
    UNION {{[i \in 1..n |-> [id |-> i, web_name |-> WebNames[i], now_cost |-> c[i]]]
              : c \in [1..n -> costs]} : n \in 1..max}

PlayerTables == PlayerTablesUpTo(MaxPlayers, Costs)

\* yesterday_costs.csv: one row per recorded id (the snapshot is keyed by id),
\* in id order; a recorded id need not be in today's table and vice versa
RECURSIVE RowsOf(_, _)
RowsOf(f, ids) ==
    IF ids = {} THEN <<>>
    ELSE LET m == CHOOSE x \in ids : \A y \in ids : x <= y
         IN <<[id |-> m, now_cost |-> f[m]]>> \o RowsOf(f, ids \ {m})

BaselineTablesUpTo(max, costs) ==
    UNION {{RowsOf(f, S) : f \in [S -> costs]} : S \in SUBSET (1..max)}

BaselineTables == BaselineTablesUpTo(MaxPlayers, Costs)

\* ---------------------------------------------- main.py / send_update.py
\* players_clean_df.merge(yesterday_df, on="id", how="left", suffixes=("", "_yest"))
\* followed by the daily_change and prev_cost columns
RECURSIVE MergeLeft(_, _)
MergeLeft(left, right) ==
    IF left = <<>> THEN <<>>
    ELSE LET p == Head(left)
             m == SelectSeq(right, LAMBDA y : y.id = p.id)
             row(yc) == [id |-> p.id, web_name |-> p.web_name,
                         now_cost |-> p.now_cost, now_cost_yest |-> yc,
                         daily_change |-> Sub(p.now_cost, yc), prev_cost |-> yc]
         IN (IF m = <<>> THEN <<row(NaN)>>
             ELSE [k \in 1..Len(m) |-> row(Num(m[k].now_cost))])
            \o MergeLeft(Tail(left), right)

\* merged_df[merged_df["daily_change"] != 0]
ChangedRows(merged) == SelectSeq(merged, LAMBDA r : Ne0(r.daily_change))

\* Variant of main_arrow that drops the "no_change" arm
main_arrow_two_way(x) == IF Gt0(x) THEN "up" ELSE "down"

\* main.py: arrow = "up" if x > 0 else ("down" if x < 0 else "no_change")
main_arrow(x) == IF Gt0(x) THEN "up" ELSE IF Lt0(x) THEN "down" ELSE "no_change"

main_price_rises(pl, yest) ==
    SelectSeq(ChangedRows(MergeLeft(pl, yest)), LAMBDA r : main_arrow(r.daily_change) = "up")
main_price_falls(pl, yest) ==
    SelectSeq(ChangedRows(MergeLeft(pl, yest)), LAMBDA r : main_arrow(r.daily_change) = "down")

\* send_update.py: changed[changed["daily_change"] > 0] / < 0
upd_rises(pl, yest) ==
    SelectSeq(ChangedRows(MergeLeft(pl, yest)), LAMBDA r : Gt0(r.daily_change))
upd_falls(pl, yest) ==
    SelectSeq(ChangedRows(MergeLeft(pl, yest)), LAMBDA r : Lt0(r.daily_change))

\* sort order passed to sort_values
main_ascending == TRUE
upd_ascending == FALSE

\* ------------------------------------------------------------ formatting
\* A price in tenths rendered with one decimal: now_cost/10 -> "5.5"
Pounds(c) == IF c.nan THEN [nan |-> TRUE, units |-> 0, tenths |-> 0]
             ELSE [nan |-> FALSE, units |-> c.v \div 10, tenths |-> c.v % 10]

Tok(k, t) == [kind |-> k, text |-> t]
Line(r) == [kind |-> "line", text |-> r.web_name,
            new |-> Pounds(Num(r.now_cost)), old |-> Pounds(r.prev_cost)]
Lines(df) == [i \in 1..Len(df) |-> Line(df[i])]

\* main.py format_price_changes: header + subheader + "\n".join(lines)
main_format_price_changes(df, change_type) ==
    <<Tok("header", change_type), Tok("subheader", "Player New Price Old Price")>>
    \o Lines(df)

\* send_update.py format_price_changes: header + "None" on an empty frame
upd_format_price_changes(df, change_type) ==
    IF df = <<>> THEN <<Tok("header", change_type), Tok("placeholder", "None")>>
    ELSE <<Tok("header", change_type), Tok("subheader", "Player New Price Old Price")>>
         \o Lines(df)

WarningText == "Warning: No 'yesterday_costs.csv' found."

\* main.py get_price_changes, after both tables are in hand (lines 105-148):
\* the set of possible (frames, return value) outcomes, one per tie order
main_get_price_changes(pl, yest) ==
    IF yest = <<>>
    THEN {[price_rises |-> <<>>, price_falls |-> <<>>, formatted |-> FALSE,
           falls_message |-> <<Tok("warning", WarningText)>>,
           rises_message |-> <<>>]}
    ELSE {[price_rises |-> r, price_falls |-> f, formatted |-> TRUE,
           falls_message |-> main_format_price_changes(f, "Price Falls"),
           rises_message |-> main_format_price_changes(r, "Price Rises")]
            : r \in SortValuesNowCost(main_price_rises(pl, yest), main_ascending),
              f \in SortValuesNowCost(main_price_falls(pl, yest), main_ascending)}

\* send_update.py get_price_changes (lines 84-106): (rises, falls, error)
upd_get_price_changes(pl, yest) ==
    IF yest = <<>>
    THEN {[rises |-> <<>>, falls |-> <<>>, error |-> "Could not load yesterday's data"]}
    ELSE {[rises |-> r, falls |-> f, error |-> ""]
            : r \in SortValuesNowCost(upd_rises(pl, yest), upd_ascending),
              f \in SortValuesNowCost(upd_falls(pl, yest), upd_ascending)}

\* send_update.py main, lines 114-121: the message handed to send_message
upd_message(res) ==
    IF res.error # ""
    THEN <<Tok("error", res.error)>>
    ELSE <<Tok("title", "Price Changes for today")>>
         \o upd_format_price_changes(res.falls, "Price Falls")
         \o <<Tok("separator", "----")>>
         \o upd_format_price_changes(res.rises, "Price Rises")

\* ------------------------------------------------------------- SpecCalc
\* The two price-change calculators applied to the same pair of tables.
NotRun == [pc |-> "idle"]
NoRuns == <<>>

InitCalc ==
    /\ players \in PlayerTables
    /\ yesterday \in BaselineTables
    /\ main_out = NotRun
    /\ upd_out = NotRun
    /\ pred = NotRun /\ trend = NotRun /\ num = NotRun
    /\ runs = NoRuns /\ sched = "waiting"

MainGetPriceChanges ==
    /\ main_out.pc = "idle"
    /\ \E res \in main_get_price_changes(players, yesterday) :
          main_out' = [pc |-> "returned", res |-> res]
    /\ UNCHANGED <<players, yesterday, upd_out, pred, trend_vars, bot_vars>>

UpdGetPriceChanges ==
    /\ upd_out.pc = "idle"
    /\ \E res \in upd_get_price_changes(players, yesterday) :
          upd_out' = [pc |-> "returned", res |-> res]
    /\ UNCHANGED <<players, yesterday, main_out, pred, trend_vars, bot_vars>>

UpdFormatMessage ==
    /\ upd_out.pc = "returned"
    /\ upd_out' = [pc |-> "formatted", res |-> upd_out.res,
                   message |-> upd_message(upd_out.res)]
    /\ UNCHANGED <<players, yesterday, main_out, pred, trend_vars, bot_vars>>

NextCalc == MainGetPriceChanges \/ UpdGetPriceChanges \/ UpdFormatMessage

SpecCalc == InitCalc /\ [][NextCalc]_vars

\* ------------------------------------------------ properties of SpecCalc
InFrame(id, df) == \E i \in 1..Len(df) : df[i].id = id

\* today's price minus yesterday's, for every baseline row with the player's id
Deltas(p) == {p.now_cost - y.now_cost : y \in {z \in Range(yesterday) : z.id = p.id}}

ClassifiedBySign(risen, fallen) ==
    \A p \in Range(players) :
        /\ InFrame(p.id, risen) <=> (\E d \in Deltas(p) : d > 0)
        /\ InFrame(p.id, fallen) <=> (\E d \in Deltas(p) : d < 0)
        /\ ~(InFrame(p.id, risen) /\ InFrame(p.id, fallen))

\* C1: with a non-empty baseline, both get_price_changes put a player in
\* 'risen' iff it has a baseline row with its id and a positive delta, in
\* 'fallen' iff it has one with a negative delta, in neither list otherwise
\* (delta 0 or no baseline row), and never in both lists.
C1_ClassifiedBySign ==
    yesterday # <<>> =>
        /\ main_out.pc = "returned" =>
              ClassifiedBySign(main_out.res.price_rises, main_out.res.price_falls)
        /\ upd_out.pc # "idle" =>
              ClassifiedBySign(upd_out.res.rises, upd_out.res.falls)

\* Both calculators have run on a table with a riser, a faller and a player
\* without a baseline row
C1_Witness ==
    /\ main_out.pc = "returned" /\ upd_out.pc # "idle"
    /\ main_out.res.price_rises # <<>> /\ main_out.res.price_falls # <<>>
    /\ upd_out.res.rises # <<>> /\ upd_out.res.falls # <<>>
    /\ \E p \in Range(players) : Deltas(p) = {}

AscendingByNowCost(df) ==
    \A i, j \in 1..Len(df) : i < j => df[i].now_cost <= df[j].now_cost

\* C2: in both pipelines the 'fallen' and the 'risen' list are ordered by
\* current price ascending.
C2_SortedAscending ==
    /\ main_out.pc = "returned" =>
          /\ AscendingByNowCost(main_out.res.price_rises)
          /\ AscendingByNowCost(main_out.res.price_falls)
    /\ upd_out.pc # "idle" =>
          /\ AscendingByNowCost(upd_out.res.rises)
          /\ AscendingByNowCost(upd_out.res.falls)

\* the token after a section's header is a placeholder
PlaceholderAfterHeader(msg, change_type) ==
    \E i \in 1..Len(msg) :
        /\ msg[i] = Tok("header", change_type)
        /\ i < Len(msg) /\ msg[i + 1].kind = "placeholder"

\* C3: a formatter given an empty collection for a section emits an explicit
\* placeholder after that section's header.
C3_EmptySectionPlaceholder ==
    /\ (main_out.pc = "returned" /\ main_out.res.formatted) =>
          /\ main_out.res.price_falls = <<>> =>
                PlaceholderAfterHeader(main_out.res.falls_message, "Price Falls")
          /\ main_out.res.price_rises = <<>> =>
                PlaceholderAfterHeader(main_out.res.rises_message, "Price Rises")
    /\ (upd_out.pc = "formatted" /\ upd_out.res.error = "") =>
          /\ upd_out.res.falls = <<>> =>
                PlaceholderAfterHeader(upd_out.message, "Price Falls")
          /\ upd_out.res.rises = <<>> =>
                PlaceholderAfterHeader(upd_out.message, "Price Rises")

\* =================================================== send_price_predictions.py
TotalManagers == 10000000
OwnersFloor == 10000
MinOwnership == 10
MinActivity == 5000
NLargestN == 10
HeadN == 5

\* selected_by_percent as the API sends it: text that parses to h hundredths
\* of a percent ("0.1" is h = 10), or text that does not parse
Pct(h) == [ok |-> TRUE, h |-> h]
Unparseable == [ok |-> FALSE, h |-> 0]

\* pd.to_numeric(..., errors='coerce').fillna(0), in hundredths of a percent
ToNumeric(raw) == IF raw.ok THEN raw.h ELSE 0

\* The kinds of row a prediction table is built from, and how many copies of
\* each a table may hold
PredKinds == <<
    [web_name |-> "Noise",  pct |-> Pct(10),     tin |-> 5000,  tout |-> 0,     cap |-> MaxCrowd],
    [web_name |-> "Edge",   pct |-> Pct(10),     tin |-> 5001,  tout |-> 0,     cap |-> MaxCandidates],
    [web_name |-> "Riser",  pct |-> Pct(500),    tin |-> 60000, tout |-> 1000,  cap |-> MaxEach],
    [web_name |-> "Faller", pct |-> Pct(300),    tin |-> 2000,  tout |-> 45000, cap |-> MaxEach],
    [web_name |-> "Drip",   pct |-> Pct(10),     tin |-> 0,     tout |-> 5000,  cap |-> MaxEach],
    [web_name |-> "Tiny",   pct |-> Pct(5),      tin |-> 90000, tout |-> 0,     cap |-> MaxEach],
    [web_name |-> "Garbled", pct |-> Unparseable, tin |-> 0,    tout |-> 90000, cap |-> MaxEach],
    [web_name |-> "Flat",   pct |-> Pct(100),    tin |-> 7000,  tout |-> 7000,  cap |-> MaxEach] >>

\* every table body made of the kinds from k on: a block of 0..cap copies of
\* kind k followed by the blocks of the later kinds
RECURSIVE PredBlocks(_)
PredBlocks(k) ==
    IF k > Len(PredKinds) THEN {<<>>}
    ELSE {[j \in 1..c |-> PredKinds[k]] \o rest :
            c \in 0..PredKinds[k].cap, rest \in PredBlocks(k + 1)}

\* elements of bootstrap-static with the columns the predictions read; at
\* least one row (an empty frame has no columns and the script raises)
PredTables ==
    {[i \in 1..Len(b) |->
        [id |-> i, web_name |-> b[i].web_name, team |-> 1, now_cost |-> 50,
         selected_by_percent |-> b[i].pct,
         transfers_in_event |-> b[i].tin, transfers_out_event |-> b[i].tout]]
       : b \in PredBlocks(1) \ {<<>>}}

\* a ratio num/den of a count to an owner count (owner counts are multiples
\* of 1000, so the comparison by cross-multiplication is exact)
RatioGt(x, y) == x.num * (y.den \div 1000) > y.num * (x.den \div 1000)

Max(a, b) == IF a >= b THEN a ELSE b

\* calculate_price_pressure: the derived columns of one row
PressureRow(r) ==
    LET pct == ToNumeric(r.selected_by_percent)
        owners == pct * (TotalManagers \div 10000)
        clipped == Max(owners, OwnersFloor)
    IN [id |-> r.id, web_name |-> r.web_name, team |-> r.team, now_cost |-> r.now_cost,
        selected_by_percent |-> pct,
        transfers_in_event |-> r.transfers_in_event,
        transfers_out_event |-> r.transfers_out_event,
        net_transfers |-> r.transfers_in_event - r.transfers_out_event,
        rising_pressure |-> [num |-> r.transfers_in_event, den |-> clipped],
        falling_pressure |-> [num |-> r.transfers_out_event, den |-> clipped]]

calculate_price_pressure(df) == [i \in 1..Len(df) |-> PressureRow(df[i])]

RemoveAt(s, i) == SubSeq(s, 1, i - 1) \o SubSeq(s, i + 1, Len(s))

\* DataFrame.nlargest(n, column), keep='first': the n rows with the largest
\* key, largest first, equal keys in row order
RECURSIVE NLargest(_, _, _)
NLargest(n, df, column) ==
    IF n = 0 \/ df = <<>> THEN <<>>
    ELSE LET i == CHOOSE k \in 1..Len(df) :
                     /\ \A j \in 1..Len(df) : ~RatioGt(df[j][column], df[k][column])
                     /\ \A j \in 1..(k - 1) : RatioGt(df[k][column], df[j][column])
         IN <<df[i]>> \o NLargest(n - 1, RemoveAt(df, i), column)

Head_(df, n) == SubSeq(df, 1, IF Len(df) < n THEN Len(df) ELSE n)

\* Variant of pred_meaningful without the ownership filter
pred_meaningful_unfiltered(df) == df

\* analysis_df[analysis_df['selected_by_percent'] >= 0.1]
pred_meaningful(df) == SelectSeq(df, LAMBDA r : r.selected_by_percent >= MinOwnership)

\* lines 115-116 and 122: rising.head(5)
pred_rising(df) ==
    Head_(SelectSeq(NLargest(NLargestN,
                             SelectSeq(pred_meaningful(df), LAMBDA r : r.net_transfers > 0),
                             "rising_pressure"),
                    LAMBDA r : r.transfers_in_event > MinActivity),
          HeadN)

\* lines 119-120 and 122: falling.head(5)
pred_falling(df) ==
    Head_(SelectSeq(NLargest(NLargestN,
                             SelectSeq(pred_meaningful(df), LAMBDA r : r.net_transfers < 0),
                             "falling_pressure"),
                    LAMBDA r : r.transfers_out_event > MinActivity),
          HeadN)

\* format_predictions: header + "No strong predictions" on an empty frame
format_predictions(df, direction) ==
    IF df = <<>>
    THEN <<Tok("header", direction), Tok("placeholder", "No strong predictions")>>
    ELSE <<Tok("header", direction)>>
         \o [i \in 1..Len(df) |->
               [kind |-> "line", text |-> df[i].web_name, team |-> df[i].team,
                price |-> Pounds(Num(df[i].now_cost)),
                pct |-> df[i].selected_by_percent, net |-> df[i].net_transfers]]

\* main(), lines 149-164: the message handed to send_message
pred_message(res) ==
    IF res.error # ""
    THEN <<Tok("error", res.error)>>
    ELSE <<Tok("title", "Price Predictions for Tonight")>>
         \o format_predictions(res.rising, "rise")
         \o <<Tok("separator", "----")>>
         \o format_predictions(res.falling, "fall")
         \o <<Tok("footer", "Prices update around 2:30am UK")>>

PredChat == "-1002392242605"
TeamNames == <<"ARS">>
NoResult == [rising |-> <<>>, falling |-> <<>>, error |-> ""]

PredBoot == [pc |-> "boot", api_key |-> "unread", players |-> <<>>, res |-> NoResult,
             computed |-> FALSE, teams_failed |-> FALSE,
             fetches |-> 0, attempts |-> 0, sent |-> <<>>, exit |-> -1]

\* module level, lines 15-20: without API_KEY the script exits with code 1
PredStart ==
    /\ pred.pc = "boot"
    /\ \E api_key \in BOOLEAN :
          pred' = IF api_key THEN [pred EXCEPT !.pc = "main", !.api_key = "set"]
                  ELSE [pred EXCEPT !.pc = "exit", !.api_key = "missing", !.exit = 1]
    /\ UNCHANGED <<calc_vars, trend_vars, bot_vars>>

\* get_price_predictions, lines 83-86: the first GET of bootstrap-static.  A
\* raised request or a non-success status (raise_for_status) is caught and
\* returned as the error string.
PredFetch ==
    /\ pred.pc = "main"
    /\ \/ \E t \in PredTables :
             pred' = [pred EXCEPT !.pc = "fetched", !.fetches = @ + 1, !.players = t]
       \/ pred' = [pred EXCEPT !.pc = "returned", !.fetches = @ + 1,
                               !.res = [NoResult EXCEPT !.error = "Failed to fetch FPL data"]]
    /\ UNCHANGED <<calc_vars, trend_vars, bot_vars>>

\* get_price_predictions, lines 89-122: the second GET of bootstrap-static for
\* the team names; any failure is swallowed by the bare except and the team
\* column is blanked; then the pressure columns, the filters and the ranking.
PredTeamsAndRank ==
    /\ pred.pc = "fetched"
    /\ \E teams_ok \in BOOLEAN :
          LET named == [i \in 1..Len(pred.players) |->
                          [pred.players[i] EXCEPT
                              !.team = IF teams_ok THEN TeamNames[@] ELSE ""]]
              df == calculate_price_pressure(named)
          IN pred' = [pred EXCEPT !.pc = "returned", !.computed = TRUE,
                                  !.fetches = @ + 1,
                                  !.teams_failed = ~teams_ok,
                                  !.res = [rising |-> pred_rising(df),
                                           falling |-> pred_falling(df),
                                           error |-> ""]]
    /\ UNCHANGED <<calc_vars, trend_vars, bot_vars>>

\* main(), lines 149-171: format, then one send_message; a failed send exits 1
PredSend ==
    /\ pred.pc = "returned"
    /\ \E delivered \in BOOLEAN :
          pred' = [pred EXCEPT
                     !.pc = "exit", !.attempts = @ + 1,
                     !.sent = IF delivered
                              THEN Append(@, [chat |-> PredChat, text |-> pred_message(pred.res)])
                              ELSE @,
                     !.exit = IF delivered THEN 0 ELSE 1]
    /\ UNCHANGED <<calc_vars, trend_vars, bot_vars>>

InitPred ==
    /\ players = <<>> /\ yesterday = <<>>
    /\ main_out = NotRun /\ upd_out = NotRun
    /\ trend = NotRun /\ num = NotRun
    /\ runs = NoRuns /\ sched = "waiting"
    /\ pred = PredBoot

NextPred == PredStart \/ PredFetch \/ PredTeamsAndRank \/ PredSend

SpecPred == InitPred /\ [][NextPred]_vars

\* ------------------------------------------------ properties of SpecPred
\* the fetched row a result row was computed from
Fetched(r) == pred.players[r.id]
OwnershipOf(p) == IF p.selected_by_percent.ok THEN p.selected_by_percent.h ELSE 0
NetOf(p) == p.transfers_in_event - p.transfers_out_event
Listed(p, df) == \E i \in 1..Len(df) : df[i].id = p.id

\* C5: if any HTTP call to the fantasy-data endpoint fails, the run aborts:
\* nothing is ranked and no computed summary is sent.
C5_FetchFailureAborts ==
    (pred.res.error # "" \/ pred.teams_failed) =>
        /\ ~pred.computed
        /\ \A i \in 1..Len(pred.sent) : pred.sent[i].text[1].kind = "error"

\* C6: every player in the rising list has ownership >= 0.1%, net_transfers > 0
\* and transfers_in > 5000; every player in the falling list has ownership
\* >= 0.1%, net_transfers < 0 and transfers_out > 5000; a player with ownership
\* below 0.1% or unparseable ownership is in neither list.
C6_PressureFilter ==
    pred.computed =>
        /\ \A i \in 1..Len(pred.res.rising) :
              LET p == Fetched(pred.res.rising[i])
              IN OwnershipOf(p) >= 10 /\ NetOf(p) > 0 /\ p.transfers_in_event > 5000
        /\ \A i \in 1..Len(pred.res.falling) :
              LET p == Fetched(pred.res.falling[i])
              IN OwnershipOf(p) >= 10 /\ NetOf(p) < 0 /\ p.transfers_out_event > 5000
        /\ \A p \in Range(pred.players) :
              (~p.selected_by_percent.ok \/ p.selected_by_percent.h < 10) =>
                  ~Listed(p, pred.res.rising) /\ ~Listed(p, pred.res.falling)

\* Both lists are non-empty and the table holds a 0.05% player and a player
\* with unparseable ownership, each with a large transfer volume
C6_Witness ==
    /\ pred.computed
    /\ pred.res.rising # <<>> /\ pred.res.falling # <<>>
    /\ \E p \in Range(pred.players) :
          p.selected_by_percent = Pct(5) /\ p.transfers_in_event > 5000
    /\ \E p \in Range(pred.players) :
          ~p.selected_by_percent.ok /\ p.transfers_out_event > 5000

MinOf(a, b) == IF a <= b THEN a ELSE b

\* rising/falling pressure of a fetched row, as a ratio
PressureOf(p, count) == [num |-> count, den |-> Max(OwnershipOf(p) * 1000, 10000)]

RisingCandidates ==
    {p \in Range(pred.players) :
        OwnershipOf(p) >= 10 /\ NetOf(p) > 0 /\ p.transfers_in_event > 5000}
FallingCandidates ==
    {p \in Range(pred.players) :
        OwnershipOf(p) >= 10 /\ NetOf(p) < 0 /\ p.transfers_out_event > 5000}

\* list is the top HeadN of cands by the pressure of the given count column
TopFiveOf(list, cands, column) ==
    /\ Len(list) = MinOf(5, Cardinality(cands))
    /\ \A i \in 1..Len(list) : Fetched(list[i]) \in cands
    /\ \A i, j \in 1..Len(list) : i < j =>
          ~RatioGt(PressureOf(Fetched(list[j]), Fetched(list[j])[column]),
                   PressureOf(Fetched(list[i]), Fetched(list[i])[column]))
    /\ \A p \in cands : ~Listed(p, list) =>
          \A i \in 1..Len(list) :
              ~RatioGt(PressureOf(p, p[column]),
                       PressureOf(Fetched(list[i]), Fetched(list[i])[column]))

\* C7: the final rising prediction is the (up to) 5 highest-rising_pressure
\* players, in descending order, of the candidates with ownership >= 0.1%,
\* net_transfers > 0 and transfers_in > 5000; the falling prediction mirrors it.
C7_TopFiveOfCandidates ==
    pred.computed =>
        /\ TopFiveOf(pred.res.rising, RisingCandidates, "transfers_in_event")
        /\ TopFiveOf(pred.res.falling, FallingCandidates, "transfers_out_event")

\* ==================================================== send_transfer_trends.py
\* 2^p mod 20
RECURSIVE Pow2Mod20(_)
Pow2Mod20(p) == IF p = 0 THEN 1 ELSE (2 * Pow2Mod20(p - 1)) % 20

\* floor(log2(n / 1000000)) for n >= 1000000
RECURSIVE Exponent(_, _)
Exponent(n, e) == IF n \div 1000000 < 2 THEN e ELSE Exponent(n \div 2, e + 1)

\* f"{n/1_000:.0f}" for 1000 <= n < 1000000.  A quotient that ends in .5 is an
\* exact double, and the format rounds an exact half to the even integer.
ThousandsRounded(n) ==
    LET q == n \div 1000
        r == n % 1000
    IN IF 2 * r < 1000 THEN q
       ELSE IF 2 * r > 1000 THEN q + 1
       ELSE IF q % 2 = 0 THEN q ELSE q + 1

\* f"{n/1_000_000:.1f}" for n >= 1000000, in tenths.  The format rounds the
\* double nearest to n/1000000.  Half way between two tenths, n = 50000*k with
\* k odd: the quotient k/20 is an exact double when 5 divides k, and the half
\* rounds to the even tenth; otherwise the double (53-bit significand) lies
\* above or below k/20 according to the fraction of k * 2^(52-e) / 20.
MillionTenths(n) ==
    LET q == n \div 100000
        r == n % 100000
        k == 2 * q + 1
        m == ((k % 20) * Pow2Mod20(52 - Exponent(n, 0))) % 20
    IN IF 2 * r < 100000 THEN q
       ELSE IF 2 * r > 100000 THEN q + 1
       ELSE IF k % 5 = 0 THEN (IF q % 2 = 0 THEN q ELSE q + 1)
       ELSE IF m > 10 THEN q + 1 ELSE q

\* the text of a number: whole part, one decimal digit or none (-1), suffix
NoDecimal == -1
Text(whole, decimal, suffix) == [whole |-> whole, decimal |-> decimal, suffix |-> suffix]

\* Variant of format_number with exclusive thresholds
format_number_exclusive(n) ==
    IF n > 1000000
    THEN Text(MillionTenths(n) \div 10, MillionTenths(n) % 10, "M")
    ELSE IF n > 1000
    THEN Text(ThousandsRounded(n), NoDecimal, "K")
    ELSE Text(n, NoDecimal, "")

\* format_number
format_number(n) ==
    IF n >= 1000000
    THEN Text(MillionTenths(n) \div 10, MillionTenths(n) % 10, "M")
    ELSE IF n >= 1000
    THEN Text(ThousandsRounded(n), NoDecimal, "K")
    ELSE Text(n, NoDecimal, "")

\* sorted(players, key=lambda x: x[column], reverse=True): a stable sort, so
\* rows with equal keys stay in input order
RECURSIVE SortedDescending(_, _)
SortedDescending(s, column) ==
    IF s = <<>> THEN <<>>
    ELSE LET i == CHOOSE k \in 1..Len(s) :
                     /\ \A j \in 1..Len(s) : s[j][column] <= s[k][column]
                     /\ \A j \in 1..(k - 1) : s[j][column] < s[k][column]
         IN <<s[i]>> \o SortedDescending(RemoveAt(s, i), column)

\* Variant of get_transfer_trends that ranks both lists by transfers in
get_transfer_trends_one_key(data, top_n) ==
    [top_in |-> Head_(SortedDescending(data, "transfers_in_event"), top_n),
     top_out |-> Head_(SortedDescending(data, "transfers_in_event"), top_n)]

\* get_transfer_trends
get_transfer_trends(data, top_n) ==
    [top_in |-> Head_(SortedDescending(data, "transfers_in_event"), top_n),
     top_out |-> Head_(SortedDescending(data, "transfers_out_event"), top_n)]

TrendLines(list, column) ==
    [i \in 1..Len(list) |->
        LET net == list[i].transfers_in_event - list[i].transfers_out_event
        IN [kind |-> "line", rank |-> i, text |-> list[i].web_name,
            count |-> format_number(list[i][column]),
            plus |-> net > 0, net |-> format_number(net)]]

\* format_transfer_message: title, the IN section, separator, the OUT section
format_transfer_message(top_in, top_out) ==
    <<Tok("title", "Transfer Trends"), Tok("header", "Most Transferred IN")>>
    \o TrendLines(top_in, "transfers_in_event")
    \o <<Tok("separator", "----"), Tok("header", "Most Transferred OUT")>>
    \o TrendLines(top_out, "transfers_out_event")

\* ----------------------------------------------------------- SpecTrends
TransferCounts == {999, 1000, 1500000}
DefaultTopN == 10

\* data['elements']: any number of rows, an empty list included
TrendTables ==
    UNION {{[i \in 1..n |-> [id |-> i, web_name |-> WebNames[i],
                             transfers_in_event |-> tin[i],
                             transfers_out_event |-> tout[i]]]
              : tin \in [1..n -> TransferCounts], tout \in [1..n -> TransferCounts]}
           : n \in 0..MaxTrendPlayers}

InitTrends ==
    /\ players = <<>> /\ yesterday = <<>>
    /\ main_out = NotRun /\ upd_out = NotRun /\ pred = NotRun /\ num = NotRun
    /\ runs = NoRuns /\ sched = "waiting"
    /\ \E data \in TrendTables, top_n \in (0..MaxTopN) \cup {DefaultTopN} :
          trend = [pc |-> "input", data |-> data, top_n |-> top_n,
                   top_in |-> <<>>, top_out |-> <<>>, message |-> <<>>]

GetTransferTrends ==
    /\ trend.pc = "input"
    /\ LET res == get_transfer_trends(trend.data, trend.top_n)
       IN trend' = [trend EXCEPT !.pc = "ranked",
                                 !.top_in = res.top_in, !.top_out = res.top_out]
    /\ UNCHANGED <<calc_vars, pred, num, bot_vars>>

FormatTransferMessage ==
    /\ trend.pc = "ranked"
    /\ trend' = [trend EXCEPT !.pc = "formatted",
                              !.message = format_transfer_message(trend.top_in, trend.top_out)]
    /\ UNCHANGED <<calc_vars, pred, num, bot_vars>>

NextTrends == GetTransferTrends \/ FormatTransferMessage

SpecTrends == InitTrends /\ [][NextTrends]_vars

\* ----------------------------------------------------------- SpecNumber
\* format_number applied to counts and signed nets around its thresholds and
\* around the halves it has to round
Around(n) == (n - 3)..(n + 3)
NumberInputs ==
    Around(0) \cup Around(-5000) \cup Around(1000) \cup Around(1500) \cup Around(2500)
    \cup Around(999500) \cup Around(1000000) \cup Around(1050000) \cup Around(1150000)
    \cup Around(1250000) \cup Around(1350000) \cup Around(1450000) \cup Around(1500000)
    \cup Around(1750000) \cup Around(2050000) \cup Around(4150000) \cup Around(9950000)
    \cup Around(12350000)

InitNumber ==
    /\ players = <<>> /\ yesterday = <<>>
    /\ main_out = NotRun /\ upd_out = NotRun /\ pred = NotRun /\ trend = NotRun
    /\ runs = NoRuns /\ sched = "waiting"
    /\ \E n \in NumberInputs : num = [pc |-> "input", n |-> n, text |-> Text(0, NoDecimal, "")]

FormatNumber ==
    /\ num.pc = "input"
    /\ num' = [num EXCEPT !.pc = "formatted", !.text = format_number(num.n)]
    /\ UNCHANGED <<calc_vars, pred, trend, bot_vars>>

NextNumber == FormatNumber

SpecNumber == InitNumber /\ [][NextNumber]_vars

\* ------------------------------------- properties of SpecTrends, SpecNumber
\* list is the top top_n of the table by the given count column
TopNOf(list, column) ==
    /\ Len(list) = MinOf(trend.top_n, Len(trend.data))
    /\ \A i \in 1..Len(list) : list[i] \in Range(trend.data)
    /\ \A i, j \in 1..Len(list) : i < j =>
          /\ list[i][column] >= list[j][column]
          /\ list[i][column] = list[j][column] => list[i].id < list[j].id
    /\ \A p \in Range(trend.data) : (\A i \in 1..Len(list) : list[i] # p) =>
          \A i \in 1..Len(list) : p[column] <= list[i][column]

\* C8: get_transfer_trends returns top_in with min(top_n, number of players)
\* entries in non-increasing transfers_in_event order, no omitted player having
\* a strictly larger transfers_in_event than a listed one, and top_out likewise
\* by transfers_out_event; equal keys keep their input order.
C8_TopNEachIndependently ==
    trend.pc # "input" =>
        /\ TopNOf(trend.top_in, "transfers_in_event")
        /\ TopNOf(trend.top_out, "transfers_out_event")

\* The table is cut (top_n below its length), the two lists differ, one
\* player is in both, and two listed players tie on transfers in
C8_Witness ==
    /\ trend.pc # "input"
    /\ 0 < trend.top_n /\ trend.top_n < Len(trend.data)
    /\ trend.top_in # trend.top_out
    /\ \E i, j \in 1..Len(trend.top_in) : trend.top_in[i] = trend.top_out[j]
    /\ \E i, j \in 1..Len(trend.top_in) :
          i < j /\ trend.top_in[i].transfers_in_event = trend.top_in[j].transfers_in_event

Abs(x) == IF x < 0 THEN -x ELSE x

\* C9: format_number renders n >= 1,000,000 as n/1,000,000 with one decimal
\* and suffix "M", 1,000 <= n < 1,000,000 as n/1,000 rounded to an integer with
\* suffix "K", and a smaller n as the plain integer; 999 -> "999",
\* 1000 -> "1K", 1500000 -> "1.5M".
C9_NumberAbbreviation ==
    num.pc = "formatted" =>
        LET n == num.n
            t == num.text
        IN /\ n >= 1000000 =>
                 /\ t.suffix = "M" /\ t.decimal \in 0..9
                 /\ Abs((10 * t.whole + t.decimal) * 100000 - n) <= 50000
           /\ (1000 <= n /\ n < 1000000) =>
                 /\ t.suffix = "K" /\ t.decimal = NoDecimal
                 /\ Abs(t.whole * 1000 - n) <= 500
           /\ n < 1000 => t = Text(n, NoDecimal, "")
           /\ n = 999 => t = Text(999, NoDecimal, "")
           /\ n = 1000 => t = Text(1, NoDecimal, "K")
           /\ n = 1500000 => t = Text(1, 5, "M")

\* The lowest count that takes the "K" suffix has been formatted
C9_Witness == num.pc = "formatted" /\ num.n = 1000 /\ num.text.suffix = "K"

\* ============================================ main.py bot, send_update.py runs
CHAT_ID == "-1002392242605"
Chats == {"chat_a", "chat_b"}
WelcomeText == "Hello! I'm your FPL Price Bot."

\* format_final_message
format_final_message(falls_message, rises_message) ==
    <<Tok("title", "Price Changes for today")>> \o falls_message
    \o <<Tok("separator", "----")>> \o rises_message

\* "Warning:" in falls_message
HasWarning(message) == \E i \in 1..Len(message) : message[i].kind = "warning"

\* Variant of warning_branch that tests rises_message the wrong way round
warning_branch_inverted(falls_message, rises_message) ==
    HasWarning(falls_message) /\ rises_message # <<>>

\* handle_price_changes / send_price_update:
\* if "Warning:" in falls_message and not rises_message
warning_branch(falls_message, rises_message) ==
    HasWarning(falls_message) /\ rises_message = <<>>

Outgoing(chat, text, final) == [chat |-> chat, text |-> text, final |-> final]

\* Variant of handler_sends whose warning branch does not return
handler_sends_fall_through(chat, fm, rm) ==
    IF warning_branch(fm, rm)
    THEN <<Outgoing(chat, fm, FALSE), Outgoing(chat, format_final_message(fm, rm), TRUE)>>
    ELSE <<Outgoing(chat, format_final_message(fm, rm), TRUE)>>

\* handle_price_changes / send_price_update after get_price_changes returned:
\* the send_message calls the handler goes on to make, in order
handler_sends(chat, fm, rm) ==
    IF warning_branch(fm, rm)
    THEN <<Outgoing(chat, fm, FALSE)>>
    ELSE <<Outgoing(chat, format_final_message(fm, rm), TRUE)>>

\* what a GET of bootstrap-static can come back with: no response at all (the
\* request raises), or a status and a body; elements = <<>> stands for a body
\* that is not JSON or has no usable 'elements' array
RunCosts == {50, 55}
RunTables == PlayerTablesUpTo(MaxRunPlayers, RunCosts)
NoResponse == [status |-> 0, elements |-> <<>>]
Responses ==
    {NoResponse} \cup {[status |-> st, elements |-> e] : st \in {200, 503},
                                                         e \in RunTables \cup {<<>>}}

\* main.py fetch_fpl_data: requests.get(url).json()['elements'], status unchecked
main_fetch_raises(resp) == resp.elements = <<>>
\* send_update.py fetch_fpl_data: raise_for_status() first
upd_fetch_raises(resp) == resp.status # 200 \/ resp.elements = <<>>

\* load_yesterday_costs: the request or the parse raises, or the CSV's rows
\* come back; the except clause turns a failure into an empty frame
BaselineOutcomes ==
    {[raised |-> TRUE, rows |-> <<>>]}
    \cup {[raised |-> FALSE, rows |-> t] : t \in BaselineTablesUpTo(MaxRunPlayers, RunCosts)}
load_yesterday_costs(outcome) == IF outcome.raised THEN <<>> ELSE outcome.rows
BaselineTag(outcome) ==
    IF outcome.raised THEN "failed" ELSE IF outcome.rows = <<>> THEN "empty" ELSE "rows"

NoPrices == [falls_message |-> <<>>, rises_message |-> <<>>, formatted |-> FALSE,
             error |-> ""]

NewRun(kind, chat, pc) ==
    [kind |-> kind, chat |-> chat, pc |-> pc, players |-> <<>>, baseline |-> "none",
     res |-> NoPrices, outgoing |-> <<>>, delivered |-> <<>>,
     attempts |-> 0, fetches |-> 0, loads |-> 0, api_key |-> "set", exit |-> -1]

\* main.py has two threads, the timer thread (run_scheduler) and the listener
\* (bot.infinity_polling on the main thread); send_update.py is a process of
\* its own.  Each works on one run at a time.
Procs == {"timer", "listener", "script"}
Free(p) == runs[p].pc \in {"idle", "done", "aborted"}
IsHandler(p) == runs[p].kind \in {"scheduled", "command"}

\* the timer thread after its job ended: an exception that leaves
\* send_price_update ends run_scheduler's loop for good
SchedAfter(p, raised) ==
    IF p = "timer" THEN (IF raised THEN "dead" ELSE "waiting") ELSE sched

\* run_scheduler: schedule.run_pending() starts the 09:00 job on the timer thread
SchedulerTrigger ==
    /\ sched = "waiting"
    /\ runs' = [runs EXCEPT !["timer"] = NewRun("scheduled", CHAT_ID, "fetch")]
    /\ sched' = "in_job"
    /\ UNCHANGED <<calc_vars, pred, trend_vars>>

\* /pricechanges arrives: handle_price_changes starts for the requester's chat
CommandPriceChanges ==
    /\ Free("listener")
    /\ \E chat \in Chats :
          runs' = [runs EXCEPT !["listener"] = NewRun("command", chat, "fetch")]
    /\ UNCHANGED <<calc_vars, pred, trend_vars, sched>>

\* /start arrives: handle_start has one reply to make
CommandStart ==
    /\ Free("listener")
    /\ \E chat \in Chats :
          runs' = [runs EXCEPT !["listener"] =
                     [NewRun("start", chat, "send") EXCEPT
                         !.outgoing = <<Outgoing(chat, <<Tok("welcome", WelcomeText)>>, FALSE)>>]]
    /\ UNCHANGED <<calc_vars, pred, trend_vars, sched>>

\* send_update.py is launched: lines 14-19 exit with code 1 without API_KEY
ScriptStart ==
    /\ Free("script")
    /\ \E api_key \in BOOLEAN :
          runs' = [runs EXCEPT !["script"] =
                     IF api_key THEN NewRun("script", CHAT_ID, "fetch")
                     ELSE [NewRun("script", CHAT_ID, "aborted") EXCEPT
                              !.api_key = "missing", !.exit = 1]]
    /\ UNCHANGED <<calc_vars, pred, trend_vars, sched>>

\* main.py get_price_changes line 100: fetch_fpl_data()
MainFetchFplData(r) ==
    /\ IsHandler(r) /\ runs[r].pc = "fetch"
    /\ \E resp \in Responses :
          IF main_fetch_raises(resp)
          THEN /\ runs' = [runs EXCEPT ![r].pc = "aborted", ![r].fetches = @ + 1]
               /\ sched' = SchedAfter(r, TRUE)
          ELSE /\ runs' = [runs EXCEPT ![r].pc = "load", ![r].fetches = @ + 1,
                                       ![r].players = resp.elements]
               /\ UNCHANGED sched
    /\ UNCHANGED <<calc_vars, pred, trend_vars>>

\* main.py get_price_changes lines 103-148 and the handler up to its send:
\* load_yesterday_costs(), the calculation, the choice of message
MainLoadYesterdayCosts(r) ==
    /\ IsHandler(r) /\ runs[r].pc = "load"
    /\ \E outcome \in BaselineOutcomes :
       \E res \in main_get_price_changes(runs[r].players, load_yesterday_costs(outcome)) :
          runs' = [runs EXCEPT
                     ![r].pc = "send", ![r].loads = @ + 1, ![r].players = <<>>,
                     ![r].baseline = BaselineTag(outcome),
                     ![r].res = [falls_message |-> res.falls_message,
                                 rises_message |-> res.rises_message,
                                 formatted |-> res.formatted, error |-> ""],
                     ![r].outgoing = handler_sends(runs[r].chat, res.falls_message,
                                                   res.rises_message)]
    /\ UNCHANGED <<calc_vars, pred, trend_vars, sched>>

\* send_update.py get_price_changes line 81: fetch_fpl_data(); main() does not
\* catch what it raises, so the script ends with a traceback and code 1
UpdFetchFplData(r) ==
    /\ runs[r].kind = "script" /\ runs[r].pc = "fetch"
    /\ \E resp \in Responses :
          runs' = IF upd_fetch_raises(resp)
                  THEN [runs EXCEPT ![r].pc = "aborted", ![r].fetches = @ + 1, ![r].exit = 1]
                  ELSE [runs EXCEPT ![r].pc = "load", ![r].fetches = @ + 1,
                                    ![r].players = resp.elements]
    /\ UNCHANGED <<calc_vars, pred, trend_vars, sched>>

\* send_update.py get_price_changes lines 82-106 and main() lines 114-121
UpdLoadYesterdayCosts(r) ==
    /\ runs[r].kind = "script" /\ runs[r].pc = "load"
    /\ \E outcome \in BaselineOutcomes :
       \E res \in upd_get_price_changes(runs[r].players, load_yesterday_costs(outcome)) :
          runs' = [runs EXCEPT
                     ![r].pc = "send", ![r].loads = @ + 1, ![r].players = <<>>,
                     ![r].baseline = BaselineTag(outcome),
                     ![r].res = [falls_message |-> upd_format_price_changes(res.falls, "Price Falls"),
                                 rises_message |-> upd_format_price_changes(res.rises, "Price Rises"),
                                 formatted |-> res.error = "", error |-> res.error],
                     ![r].outgoing = <<Outgoing(runs[r].chat, upd_message(res), res.error = "")>>]
    /\ UNCHANGED <<calc_vars, pred, trend_vars, sched>>

\* bot.send_message / bot.reply_to: the next send of the run.  A send that
\* raises ends the run (the script exits with code 1); nothing is sent again.
SendMessage(r) ==
    /\ runs[r].pc = "send" /\ runs[r].outgoing # <<>>
    /\ \E delivered \in BOOLEAN :
          IF delivered
          THEN LET rest == Tail(runs[r].outgoing)
               IN /\ runs' = [runs EXCEPT
                                ![r].attempts = @ + 1,
                                ![r].delivered = Append(@, Head(runs[r].outgoing)),
                                ![r].outgoing = rest,
                                ![r].pc = IF rest = <<>> THEN "done" ELSE "send",
                                ![r].exit = IF runs[r].kind = "script" /\ rest = <<>>
                                            THEN 0 ELSE @]
                  /\ sched' = IF rest = <<>> THEN SchedAfter(r, FALSE) ELSE sched
          ELSE /\ runs' = [runs EXCEPT ![r].attempts = @ + 1, ![r].pc = "aborted",
                                       ![r].exit = IF runs[r].kind = "script" THEN 1 ELSE @]
               /\ sched' = SchedAfter(r, TRUE)
    /\ UNCHANGED <<calc_vars, pred, trend_vars>>

Init ==
    /\ players = <<>> /\ yesterday = <<>>
    /\ main_out = NotRun /\ upd_out = NotRun
    /\ pred = NotRun /\ trend = NotRun /\ num = NotRun
    /\ runs = [p \in Procs |-> NewRun("none", "", "idle")]
    /\ sched = "waiting"

Next ==
    \/ SchedulerTrigger
    \/ CommandPriceChanges
    \/ CommandStart
    \/ ScriptStart
    \/ \E r \in Procs : MainFetchFplData(r)
    \/ \E r \in Procs : MainLoadYesterdayCosts(r)
    \/ \E r \in Procs : UpdFetchFplData(r)
    \/ \E r \in Procs : UpdLoadYesterdayCosts(r)
    \/ \E r \in Procs : SendMessage(r)

Spec == Init /\ [][Next]_vars

\* --------------------------------------------------- properties of Spec
\* every send a run has made or is about to make
SendsOf(r) == Range(runs[r].delivered) \cup Range(runs[r].outgoing)
WarningMessage == <<Tok("warning", WarningText)>>

\* C4: when the baseline fetch or parse fails, or the baseline is empty,
\* load_yesterday_costs raises nothing, main.py get_price_changes returns
\* (warning, ""), and the handler sends exactly the warning text without
\* calling format_price_changes or format_final_message; when the baseline is
\* non-empty the warning branch is not taken and the combined formatted
\* message is what is sent.
C4_WarningOnMissingBaseline ==
    \A r \in Procs : IsHandler(r) =>
        /\ runs[r].baseline \in {"failed", "empty"} =>
              /\ runs[r].pc = "aborted" => runs[r].attempts = 1
              /\ runs[r].res.falls_message = WarningMessage
              /\ runs[r].res.rises_message = <<>>
              /\ ~runs[r].res.formatted
              /\ \A m \in SendsOf(r) : m.text = WarningMessage /\ ~m.final
              /\ runs[r].pc = "done" => Len(runs[r].delivered) = 1
        /\ runs[r].baseline = "rows" =>
              /\ runs[r].res.formatted
              /\ \A m \in SendsOf(r) :
                    /\ m.final /\ ~HasWarning(m.text)
                    /\ m.text = format_final_message(runs[r].res.falls_message,
                                                     runs[r].res.rises_message)
              /\ runs[r].pc = "done" => Len(runs[r].delivered) = 1

\* One handler run has delivered the warning after a failed baseline load and
\* another has delivered the combined message
C4_Witness ==
    \E r, q \in Procs :
        /\ IsHandler(r) /\ runs[r].baseline = "failed" /\ runs[r].pc = "done"
        /\ IsHandler(q) /\ runs[q].baseline = "rows" /\ runs[q].pc = "done"

\* where a run's message has to go
Destination(r) == IF runs[r].kind \in {"scheduled", "script"} THEN CHAT_ID ELSE runs[r].chat

OneSendPerRun ==
    \A r \in Procs :
        /\ runs[r].attempts <= 1 /\ runs[r].fetches <= 1 /\ runs[r].loads <= 1
        /\ runs[r].pc = "done" =>
              /\ Len(runs[r].delivered) = 1
              /\ runs[r].delivered[1].chat = Destination(r)
              /\ runs[r].kind \in {"command", "start"} => runs[r].delivered[1].chat \in Chats
        /\ runs[r].pc = "aborted" => runs[r].delivered = <<>>
        /\ runs[r].pc \notin {"done", "aborted"} => runs[r].delivered = <<>>

\* a step of one run leaves every other run as it was
RunsIndependent ==
    \A r, q \in Procs : (r # q /\ runs'[r] # runs[r]) => runs'[q] = runs[q]

\* C10: under any interleaving of scheduled and command runs each run is
\* atomic and independent: a completed run has made exactly one send, to its
\* own destination; an aborted run has delivered nothing; no run sends twice
\* or repeats a fetch or a send.
C10_OneSendPerRun == []OneSendPerRun /\ [][RunsIndependent]_vars

\* A command run has completed with its reply delivered while a scheduled
\* run is between its fetch and its send
C10_Witness ==
    /\ runs["timer"].kind = "scheduled" /\ runs["timer"].pc = "load"
    /\ runs["listener"].kind = "command" /\ runs["listener"].pc = "done"
    /\ runs["listener"].delivered[1].chat = "chat_b"

\* ------------------------------------------------- the one-shot scripts
\* send_transfer_trends.py line 14: CHAT_ID = os.getenv('CHAT_ID') or '@fplpricechanges'
TrendChat == "@fplpricechanges"

\* send_transfer_trends.py as a process, before its module-level code has run
TrendBoot == [pc |-> "boot", api_key |-> "unread", data |-> <<>>,
              fetches |-> 0, attempts |-> 0, sent |-> <<>>, exit |-> -1]

\* module level, lines 13-18: without API_KEY the script exits with code 1
TrendStart ==
    /\ trend.pc = "boot"
    /\ \E api_key \in BOOLEAN :
          trend' = IF api_key THEN [trend EXCEPT !.pc = "main", !.api_key = "set"]
                   ELSE [trend EXCEPT !.pc = "exit", !.api_key = "missing", !.exit = 1]
    /\ UNCHANGED <<calc_vars, pred, num, bot_vars>>

\* main() line 91: fetch_fpl_data() inside the try; what it raises (the
\* request, raise_for_status) reaches the except of line 98 and sys.exit(1)
TrendFetch ==
    /\ trend.pc = "main"
    /\ \/ \E data \in TrendTables :
             trend' = [trend EXCEPT !.pc = "fetched", !.fetches = @ + 1, !.data = data]
       \/ trend' = [trend EXCEPT !.pc = "exit", !.fetches = @ + 1, !.exit = 1]
    /\ UNCHANGED <<calc_vars, pred, num, bot_vars>>

\* Variant of TrendSend whose except branch only prints, so that the script
\* ends with code 0 after a send that raised
TrendSend_except_only_prints ==
    /\ trend.pc = "fetched"
    /\ \E delivered \in BOOLEAN :
          LET res == get_transfer_trends(trend.data, DefaultTopN)
              message == format_transfer_message(res.top_in, res.top_out)
          IN trend' = [trend EXCEPT
                         !.pc = "exit", !.attempts = @ + 1,
                         !.sent = IF delivered
                                  THEN Append(@, [chat |-> TrendChat, text |-> message])
                                  ELSE @,
                         !.exit = 0]
    /\ UNCHANGED <<calc_vars, pred, num, bot_vars>>

\* main() lines 92-100: rank, format, one send_message; a send that raises
\* reaches the except and sys.exit(1), otherwise main() returns (code 0)
TrendSend ==
    /\ trend.pc = "fetched"
    /\ \E delivered \in BOOLEAN :
          LET res == get_transfer_trends(trend.data, DefaultTopN)
              message == format_transfer_message(res.top_in, res.top_out)
          IN trend' = [trend EXCEPT
                         !.pc = "exit", !.attempts = @ + 1,
                         !.sent = IF delivered
                                  THEN Append(@, [chat |-> TrendChat, text |-> message])
                                  ELSE @,
                         !.exit = IF delivered THEN 0 ELSE 1]
    /\ UNCHANGED <<calc_vars, pred, num, bot_vars>>

\* The three scripts are separate cron jobs: a behaviour runs one of them.
Scripts == {"send_update", "send_price_predictions", "send_transfer_trends"}

InitScripts ==
    /\ players = <<>> /\ yesterday = <<>>
    /\ main_out = NotRun /\ upd_out = NotRun /\ num = NotRun
    /\ runs = [p \in Procs |-> NewRun("none", "", "idle")]
    /\ sched = "waiting"
    /\ \E script \in Scripts :
          /\ pred = IF script = "send_price_predictions" THEN PredBoot ELSE NotRun
          /\ trend = IF script = "send_transfer_trends" THEN TrendBoot ELSE NotRun

\* send_update.py is the job of this behaviour when neither other script is
UpdStart == pred = NotRun /\ trend = NotRun /\ ScriptStart

NextScripts ==
    \/ UpdStart
    \/ UpdFetchFplData("script")
    \/ UpdLoadYesterdayCosts("script")
    \/ SendMessage("script")
    \/ PredStart
    \/ PredFetch
    \/ PredTeamsAndRank
    \/ PredSend
    \/ TrendStart
    \/ TrendFetch
    \/ TrendSend

SpecScripts == InitScripts /\ [][NextScripts]_vars

\* ------------------------------------------- properties of SpecScripts
\* The exit-code rule for one script process: ended says the process is over,
\* exit is its code (-1 while it runs), delivered the number of messages the
\* platform accepted, fetch_raised that a fetch failure reached the top level,
\* send_raised that the send failed.
ExitCodeRule(ended, exit, delivered, fetch_raised, send_raised, api_key, fetches, attempts) ==
    /\ exit \in {-1, 0, 1}
    /\ ended <=> exit # -1
    /\ exit = 0 <=> delivered = 1
    /\ delivered \in {0, 1}
    /\ fetch_raised => exit = 1
    /\ send_raised => exit = 1
    /\ api_key = "missing" => exit = 1 /\ fetches = 0 /\ attempts = 0

UpdExitCode ==
    LET r == runs["script"]
    IN r.kind = "script" =>
          ExitCodeRule(r.pc \in {"done", "aborted"}, r.exit, Len(r.delivered),
                       r.pc = "aborted" /\ r.fetches = 1 /\ r.loads = 0,
                       r.pc = "aborted" /\ r.attempts = 1,
                       r.api_key, r.fetches + r.loads, r.attempts)

\* the predictions script has no unhandled fetch failure: the first is
\* returned as the error text and sent, the second is swallowed
PredExitCode ==
    pred.pc # "idle" =>
       /\ ExitCodeRule(pred.pc = "exit", pred.exit, Len(pred.sent),
                       FALSE,
                       pred.pc = "exit" /\ pred.attempts = 1 /\ pred.sent = <<>>,
                       pred.api_key, pred.fetches, pred.attempts)
       /\ pred.pc = "exit" /\ pred.api_key = "set" => pred.attempts = 1

TrendExitCode ==
    trend.pc # "idle" =>
       ExitCodeRule(trend.pc = "exit", trend.exit, Len(trend.sent),
                    trend.pc = "exit" /\ trend.fetches = 1 /\ trend.attempts = 0,
                    trend.pc = "exit" /\ trend.attempts = 1 /\ trend.sent = <<>>,
                    trend.api_key, trend.fetches, trend.attempts)

\* C11: each one-shot script (send_update.py, send_price_predictions.py,
\* send_transfer_trends.py) ends with code 0 exactly when its message was
\* delivered, with code 1 when a fetch failure reached the top level or the
\* send failed, and with code 1 before any fetch or send when the bot
\* credential is missing.
C11_ExitCodes == UpdExitCode /\ PredExitCode /\ TrendExitCode

\* The trends script fetched a non-empty table, its send raised, and the
\* process ended with code 1 having delivered nothing
C11_Witness ==
    /\ trend.pc = "exit" /\ trend.api_key = "set"
    /\ trend.data # <<>> /\ trend.attempts = 1 /\ trend.sent = <<>>
    /\ trend.exit = 1

====
